---- MODULE Spec2Model ----
(***************************************************************************)
(* Model of chantools' sweepremoteclosed command                           *)
(* (cmd/chantools/sweepremoteclosed.go): the balance scan over the         *)
(* recovery window, the matching of the ancient (tweaked) channel points,  *)
(* the assembly of the sweep transaction, the dust check, the fee, the     *)
(* signing of every input and the serialisation / publication.             *)
(*                                                                         *)
(* Keys, addresses and scripts are symbolic: the key of scan index i is    *)
(* the number i, an address is a record of its type and of the key (and    *)
(* commit point) it was made from, so two addresses are equal exactly when *)
(* they were made the same way.                                            *)
(***************************************************************************)
EXTENDS Integers, Sequences, FiniteSets, TLC

\* ------------------------------------------------------------------ bounds
\* Largest recovery window.
MaxWindow == 2
\* Largest size of a run's input: unspent outputs the scan is answered plus
\* records of the embedded list.
MaxItems == 2

\* -------------------------------------------------------- program constants
sweepDustLimit == 600
WitnessScaleFactor == 4

\* Size constants of the imported weight estimator (lnd's input package),
\* used by PrepareWalletAddress, AddP2WKHInput and AddWitnessInput.  The
\* package is not part of this repository; only the order of magnitude of
\* the sizes matters to the fee.
BaseTxSize == 8
InputSize == 41
P2WKHOutputSize == 31
P2TROutputSize == 43
WitnessHeaderSize == 2
P2WKHWitnessSize == 109
ToRemoteConfirmedWitnessSize == 113
TaprootToRemoteWitnessSize == 141

\* ------------------------------------------------------------ input sets
Windows == 1..MaxWindow
FeeRates == {1, 10}
Values == {300, 700}
SweepAddrTypes == {"p2wkh", "p2tr"}
CommitPoints == {"cp1"}
Families == <<"p2wkh", "p2wsh", "p2tr">>

\* A nil byte slice (length 0), a nil script tree, no commit point.
Nil == <<>>
NilTree == [SettleLeaf |-> Nil, TapscriptRoot |-> Nil, CtrlBlock |-> Nil]
NoCP == ""

VARIABLES
    pc,               \* position in sweepRemoteClosed
    err,              \* the error returned ("" while running or on success)
    recoveryWindow,   \* parameter
    feeRate,          \* parameter, drawn when line 306 reads it (0 before)
    publish,          \* parameter, drawn when line 373 reads it
    sweepScript,      \* PkScript of the sweep address (PrepareWalletAddress)
    index,            \* loop variable of the scan loop
    fam,              \* 0: derive the key of index; 1..3: next family queried
    derived,          \* log: indices whose key was derived, in order
    queries,          \* log: the Unspent calls, in order, with their answers
    foundTargets,     \* queryAddressBalances' local targets
    targets,          \* sweepRemoteClosed's targets
    channels,         \* the ancient channel records (the embedded list)
    ancientChannels,  \* findAncientChannels' result
    examined,         \* log: per keyInCache call, the indices it examined
    ancientPos,       \* position of checkAncientChannelPoints' loop
    txLookups,        \* log: the Transaction calls with their answers
    ancientTargets,   \* checkAncientChannelPoints' local targets
    estimator,        \* input.TxWeightEstimator
    sweepTx,          \* the transaction: TxIn and TxOut
    signDescs,        \* the sign descriptors, one per added input
    totalOutputValue, \* sum of the values of the added inputs
    prevOutFetcher,   \* the previous outputs known to the fetcher
    buildPos,         \* <<target, utxo>> position of the loops of line 219
    sigHashes,        \* the shared signature-hash context (Nil before)
    sigHashCount,     \* how many times the context was computed
    signIdx,          \* number of descriptors the signing loop has passed
    buf,              \* the serialised transaction (Nil before)
    published,        \* api.PublishTx succeeded
    printed,          \* the transaction was logged (line 384)
    call,             \* the library function applied and its arguments
    result            \* what that function returned

scanVars == <<index, fam, derived, queries, foundTargets>>
paramVars == <<recoveryWindow, feeRate, publish, sweepScript>>
ancientVars == <<channels, ancientChannels, examined, ancientPos, txLookups,
                 ancientTargets>>
buildVars == <<estimator, sweepTx, signDescs, totalOutputValue, prevOutFetcher,
               buildPos, sigHashes, sigHashCount>>
signVars == <<signIdx, buf, published, printed>>
libVars == <<call, result>>
sweepVars == <<pc, err, paramVars, scanVars, targets, ancientVars, buildVars,
               signVars>>
vars == <<sweepVars, libVars>>

\* No library function has been applied.
NoCall == [fn |-> "none"]

\* ------------------------------------------------------------- addresses
\* lnd.P2WKHAddr / P2AnchorStaticRemote / P2TaprootStaticRemote of the key of
\* scan index i.
FamilyAddr(i, f) == [type |-> Families[f], key |-> i, cp |-> NoCP]

\* The anchor to-remote script of key i (P2AnchorStaticRemote's 2nd result).
AnchorScript(i) == <<"to_remote_confirmed", i>>

\* The taproot script tree of key i (P2TaprootStaticRemote's 2nd result).
ScriptTree(i) ==
    [SettleLeaf |-> <<"settle_leaf", i>>, TapscriptRoot |-> <<"tap_root", i>>,
     CtrlBlock |-> <<"ctrl_block", i>>]

\* The locking script the chain reports for an output of address a.
PkScriptOf(a) == <<"pkscript", a>>

\* keychain.KeyDescriptor of the payment base key at index i.
KeyDesc(i) == [PubKey |-> i, Family |-> "PaymentBase", Index |-> i]


\* ------------------------------------------------------------ sequences
RECURSIVE SumValues(_)
\* Sum of the Value fields of a sequence of outputs.
SumValues(s) == IF s = <<>> THEN 0 ELSE s[1].Value + SumValues(Tail(s))

RECURSIVE Flatten(_)
\* Concatenation of a sequence of sequences.
Flatten(ss) == IF ss = <<>> THEN <<>> ELSE ss[1] \o Flatten(Tail(ss))

\* The UTXOs of a list of targets, in target order then UTXO order.
AllUtxos(ts) == Flatten([t \in 1..Len(ts) |-> ts[t].utxos])

\* ------------------------------------------------------- chain lookup
\* What api.Unspent may answer for address a when at most n more outputs
\* fit the model's bound: an error, or a list (possibly empty) of vouts.
UnspentAnswers(a, n) ==
    {[ok |-> FALSE, vouts |-> <<>>]} \cup
    UNION {{[ok |-> TRUE,
             vouts |-> [j \in 1..k |->
                [Value |-> vs[j], ScriptPubkey |-> PkScriptOf(a),
                 Txid |-> <<"scan", a.type, a.key>>, Vin |-> j - 1]]] :
            vs \in [1..k -> Values]} : k \in 0..n}

\* parseUtxos: one utxo per vout, in the vouts' order.
parseUtxos(vouts) ==
    [j \in 1..Len(vouts) |->
        [Value |-> vouts[j].Value, PkScript |-> vouts[j].ScriptPubkey,
         OutPoint |-> [Hash |-> vouts[j].Txid, Index |-> vouts[j].Vin]]]

\* ---------------------------------------------------------- balance scan
\* The target queryAddr appends for family f of the key of index i.
ScanTarget(i, f, unspent) ==
    [addr |-> FamilyAddr(i, f), keyDesc |-> KeyDesc(i), tweak |-> Nil,
     utxos |-> parseUtxos(unspent),
     script |-> IF f = 2 THEN AnchorScript(i) ELSE Nil,
     scriptTree |-> IF f = 3 THEN ScriptTree(i) ELSE NilTree]

\* Mutant of queryAddr: an address with a single unspent output is dropped.
queryAddr_DropSingle(found, i, f, unspent) ==
    IF Len(unspent) > 1 THEN Append(found, ScanTarget(i, f, unspent))
    ELSE found

\* Mutant of queryAddr: a found target is put before the earlier ones.
queryAddr_Prepend(found, i, f, unspent) ==
    IF Len(unspent) > 0 THEN <<ScanTarget(i, f, unspent)>> \o found
    ELSE found

\* queryAddr's result: the local targets after the answer `unspent`.
queryAddr(found, i, f, unspent) ==
    IF Len(unspent) > 0 THEN Append(found, ScanTarget(i, f, unspent))
    ELSE found

\* ------------------------------------------------------ weight estimator
\* lnd.PrepareWalletAddress: the sweep address' output is added to the
\* estimator (P2WKH or P2TR, the two types CheckAddress lets through).
PrepareWalletAddress(script) ==
    [inputCount |-> 0, inputSize |-> 0, inputWitnessSize |-> 0,
     outputSize |-> IF script[2].type = "p2tr" THEN P2TROutputSize
                    ELSE P2WKHOutputSize]

\* TxWeightEstimator.AddWitnessInput (AddP2WKHInput is AddWitnessInput of
\* P2WKHWitnessSize).
AddWitnessInput(e, witnessSize) ==
    [e EXCEPT !.inputCount = @ + 1, !.inputSize = @ + InputSize,
              !.inputWitnessSize = @ + witnessSize]

\* TxWeightEstimator.Weight, for fewer than 253 inputs and outputs.
Weight(e) ==
    WitnessScaleFactor * (BaseTxSize + 1 + e.inputSize + 1 + e.outputSize)
        + IF e.inputCount > 0 THEN WitnessHeaderSize + e.inputWitnessSize
          ELSE 0

\* Mutant of InWindow: the scan stops one index before the window's end.
InWindow_StopEarly(i, window) == i < window - 1

\* The condition of the scan loop, `for index := range recoveryWindow`.
InWindow(i, window) == i < window

\* Number of unspent outputs found so far by the scan.
FoundCount == Len(AllUtxos(targets)) + Len(AllUtxos(foundTargets))

Init ==
    /\ pc = "scan"
    /\ err = ""
    /\ recoveryWindow \in Windows
    /\ sweepScript \in {PkScriptOf([type |-> t, key |-> -1, cp |-> NoCP]) :
                            t \in SweepAddrTypes}
    /\ feeRate = 0
    /\ publish = FALSE
    /\ index = 0
    /\ fam = 0
    /\ derived = <<>>
    /\ queries = <<>>
    /\ foundTargets = <<>>
    /\ targets = <<>>
    /\ channels = <<>>
    /\ ancientChannels = <<>>
    /\ examined = <<>>
    /\ ancientPos = 1
    /\ txLookups = <<>>
    /\ ancientTargets = <<>>
    /\ estimator = PrepareWalletAddress(sweepScript)
    /\ sweepTx = [TxIn |-> <<>>, TxOut |-> <<>>]
    /\ signDescs = <<>>
    /\ totalOutputValue = 0
    /\ prevOutFetcher = {}
    /\ buildPos = <<1, 1>>
    /\ sigHashes = Nil
    /\ sigHashCount = 0
    /\ signIdx = 0
    /\ buf = Nil
    /\ published = FALSE
    /\ printed = FALSE
    /\ call = NoCall
    /\ result = NoCall

\* Lines 159-178 of one iteration of the scan loop: the path of the index is
\* parsed, the key derived; a failure returns the error.
DeriveIndex ==
    /\ pc = "scan"
    /\ InWindow(index, recoveryWindow)
    /\ fam = 0
    /\ \E ok \in BOOLEAN :
        IF ok
        THEN /\ derived' = Append(derived, index)
             /\ fam' = 1
             /\ UNCHANGED <<pc, err>>
        ELSE /\ pc' = "error"
             /\ err' = "DerivationError"
             /\ UNCHANGED <<derived, fam>>
    /\ UNCHANGED <<libVars, paramVars, index, queries, foundTargets, targets,
                   ancientVars, buildVars, signVars>>

\* One queryAddr call of queryAddressBalances (families in the order of
\* lines 422-444); after the third the found targets are appended to
\* targets (line 193) and the loop goes to the next index.
QueryAddress ==
    /\ pc = "scan"
    /\ InWindow(index, recoveryWindow)
    /\ fam \in 1..3
    /\ \E answer \in UnspentAnswers(FamilyAddr(index, fam),
                                      MaxItems - FoundCount) :
        /\ queries' = Append(queries,
                [index |-> index, fam |-> fam, answer |-> answer])
        /\ IF ~answer.ok
           THEN /\ pc' = "error"
                /\ err' = "LookupError"
                /\ UNCHANGED <<index, fam, foundTargets, targets>>
           ELSE LET found == queryAddr(foundTargets, index, fam,
                                       answer.vouts)
                IN  IF fam < 3
                    THEN /\ fam' = fam + 1
                         /\ foundTargets' = found
                         /\ UNCHANGED <<pc, err, index, targets>>
                    ELSE /\ targets' = targets \o found
                         /\ foundTargets' = <<>>
                         /\ fam' = 0
                         /\ index' = index + 1
                         /\ pc' = IF InWindow(index + 1, recoveryWindow)
                                  THEN "scan" ELSE "ancient"
                         /\ err' = err
    /\ UNCHANGED <<libVars, paramVars, derived, ancientVars, buildVars,
                   signVars>>

\* ------------------------------------------------------- legacy matcher
errAddrNotFound == "AddressNotFound"
BadCP == "bad"
VoutCounts == {1, 2}

\* The P2WKH address of the key of index i tweaked with commit point cp.
TweakedAddr(i, cp) == [type |-> "p2wkh", key |-> i, cp |-> cp]

\* input.SingleTweakBytes of commit point cp and the key of index i.
SingleTweak(i, cp) == <<"tweak", i, cp>>

\* The n-th record of the embedded list: its close address was made from the
\* key of index k (of this wallet when k is inside the window) and commit
\* point acp; cp is the record's commit point field.
AncientChannel(n, k, acp, cp) ==
    [OP |-> [Hash |-> <<"anc", "p2wkh", n>>, Index |-> (n - 1) % 2],
     Addr |-> TweakedAddr(k, acp), CP |-> cp]

\* What a record may be: made from the key of an index k with the record's
\* own commit point (k = MaxWindow lies outside every window), or a record
\* whose commit point does not decode.
RecordChoices ==
    {<<k, cp, cp>> : k \in 0..MaxWindow, cp \in CommitPoints}
        \cup {<<0, cp, BadCP>> : cp \in CommitPoints}

\* The lists of at most maxLen records the embedded file may hold.
ChannelLists(maxLen) ==
    UNION {{[n \in 1..len |-> AncientChannel(n, c[n][1], c[n][2], c[n][3])] :
            c \in [1..len -> RecordChoices]} : len \in 0..maxLen}

RECURSIVE keyInCacheFrom(_, _, _, _)
\* keyInCache's loop from index i on: the cached indices are tried in
\* ascending order and the first whose tweaked address is addr is returned.
keyInCacheFrom(i, numKeys, addr, commitPoint) ==
    IF i >= numKeys
    THEN [found |-> FALSE, index |-> -1, tweak |-> Nil, examined |-> <<>>]
    ELSE IF TweakedAddr(i, commitPoint) = addr
         THEN [found |-> TRUE, index |-> i,
               tweak |-> SingleTweak(i, commitPoint), examined |-> <<i>>]
         ELSE LET r == keyInCacheFrom(i + 1, numKeys, addr, commitPoint)
              IN  [r EXCEPT !.examined = <<i>> \o @]

keyInCache(numKeys, addr, commitPoint) ==
    keyInCacheFrom(0, numKeys, addr, commitPoint)

\* One entry of the log of keyInCache calls.
Examined(channel, r) ==
    [op |-> channel.OP, indices |-> r.examined, found |-> r.found]

RECURSIVE findAncientChannels_AbortOnMiss(_, _)
\* Mutant of findAncientChannels: errAddrNotFound is returned like any
\* other error.
findAncientChannels_AbortOnMiss(chs, numKeys) ==
    IF chs = <<>>
    THEN [err |-> "", found |-> <<>>, examined |-> <<>>]
    ELSE LET channel == Head(chs)
         IN  IF channel.CP = BadCP
             THEN [err |-> "DecodeError", found |-> <<>>, examined |-> <<>>]
             ELSE LET r == keyInCache(numKeys, channel.Addr, channel.CP)
                      rest == findAncientChannels_AbortOnMiss(Tail(chs),
                                                              numKeys)
                  IN  IF ~r.found
                      THEN [err |-> errAddrNotFound, found |-> <<>>,
                            examined |-> <<Examined(channel, r)>>]
                      ELSE IF rest.err # ""
                      THEN [err |-> rest.err, found |-> <<>>,
                            examined |-> <<Examined(channel, r)>>
                                            \o rest.examined]
                      ELSE [err |-> "", found |-> <<channel>> \o rest.found,
                            examined |-> <<Examined(channel, r)>>
                                            \o rest.examined]

RECURSIVE findAncientChannels_StopAtMiss(_, _)
\* Mutant of findAncientChannels: the loop ends at the first record that
\* is not found.
findAncientChannels_StopAtMiss(chs, numKeys) ==
    IF chs = <<>>
    THEN [err |-> "", found |-> <<>>, examined |-> <<>>]
    ELSE LET channel == Head(chs)
         IN  IF channel.CP = BadCP
             THEN [err |-> "DecodeError", found |-> <<>>, examined |-> <<>>]
             ELSE LET r == keyInCache(numKeys, channel.Addr, channel.CP)
                      rest == IF r.found
                              THEN findAncientChannels_StopAtMiss(Tail(chs),
                                                                  numKeys)
                              ELSE [err |-> "", found |-> <<>>,
                                    examined |-> <<>>]
                      log == <<Examined(channel, r)>> \o rest.examined
                  IN  IF rest.err # ""
                      THEN [err |-> rest.err, found |-> <<>>,
                            examined |-> log]
                      ELSE [err |-> "",
                            found |-> (IF r.found THEN <<channel>>
                                       ELSE <<>>) \o rest.found,
                            examined |-> log]

RECURSIVE findAncientChannels(_, _)
\* The loop of findAncientChannels over the records (after fillCache):
\* err is the error returned ("" for none), found the records kept.
findAncientChannels(chs, numKeys) ==
    IF chs = <<>>
    THEN [err |-> "", found |-> <<>>, examined |-> <<>>]
    ELSE LET channel == Head(chs)
         IN  IF channel.CP = BadCP
             THEN [err |-> "DecodeError", found |-> <<>>, examined |-> <<>>]
             ELSE LET r == keyInCache(numKeys, channel.Addr, channel.CP)
                      rest == findAncientChannels(Tail(chs), numKeys)
                      log == <<Examined(channel, r)>> \o rest.examined
                  IN  IF rest.err # ""
                      THEN [err |-> rest.err, found |-> <<>>,
                            examined |-> log]
                      ELSE [err |-> "",
                            found |-> (IF r.found THEN <<channel>>
                                       ELSE <<>>) \o rest.found,
                            examined |-> log]

\* What api.Transaction may answer for the close transaction of a record.
TxAnswers(channel) ==
    {[ok |-> FALSE, Vout |-> <<>>]} \cup
    {[ok |-> TRUE,
      Vout |-> [j \in 1..n |-> [Value |-> v,
                                ScriptPubkey |-> PkScriptOf(channel.Addr)]]] :
     n \in VoutCounts, v \in Values}

\* Mutant of AncientTarget: the utxo is located at output 0 of the close
\* transaction's hash, whatever the record's outpoint index.
AncientTarget_FirstOutput(channel, key, tx) ==
    [addr |-> channel.Addr, keyDesc |-> KeyDesc(key.index),
     tweak |-> key.tweak,
     utxos |-> <<[Value |-> tx.Vout[1].Value,
                  PkScript |-> tx.Vout[1].ScriptPubkey,
                  OutPoint |-> [Hash |-> channel.OP.Hash, Index |-> 0]]>>,
     script |-> Nil, scriptTree |-> NilTree]

\* The target checkAncientChannelPoints appends for a matched record.
AncientTarget(channel, key, tx) ==
    [addr |-> channel.Addr, keyDesc |-> KeyDesc(key.index),
     tweak |-> key.tweak,
     utxos |-> <<[Value |-> tx.Vout[channel.OP.Index + 1].Value,
                  PkScript |-> tx.Vout[channel.OP.Index + 1].ScriptPubkey,
                  OutPoint |-> channel.OP]>>,
     script |-> Nil, scriptTree |-> NilTree]

\* Mutant of ReturnFromAncient: every error of the matching is let through.
ReturnFromAncient_AbsorbAll(e, ts) ==
    /\ pc' = "build"
    /\ err' = err
    /\ targets' = targets \o ts

\* Lines 198-208: checkAncientChannelPoints returned (ts, e).  Only
\* errAddrNotFound is let through; the targets returned are appended.
ReturnFromAncient(e, ts) ==
    IF e # "" /\ e # errAddrNotFound
    THEN /\ pc' = "error"
         /\ err' = e
         /\ UNCHANGED targets
    ELSE /\ pc' = "build"
         /\ err' = err
         /\ targets' = targets \o ts

\* Lines 531-540: the embedded records are read, the cache filled and
\* findAncientChannels run over all records.
FindAncientChannels ==
    /\ pc = "ancient"
    /\ \E chs \in ChannelLists(MaxItems - FoundCount), cacheOk \in BOOLEAN :
        /\ channels' = chs
        /\ IF ~cacheOk
           THEN /\ ReturnFromAncient("DerivationError", <<>>)
                /\ UNCHANGED <<ancientChannels, examined>>
           ELSE LET r == findAncientChannels(chs, recoveryWindow)
                IN  /\ examined' = r.examined
                    /\ IF r.err # ""
                       THEN /\ ReturnFromAncient(r.err, <<>>)
                            /\ UNCHANGED ancientChannels
                       ELSE /\ ancientChannels' = r.found
                            /\ pc' = "lookup"
                            /\ UNCHANGED <<err, targets>>
    /\ UNCHANGED <<libVars, paramVars, scanVars, ancientPos, txLookups,
                   ancientTargets, buildVars, signVars>>

\* One iteration of the loop of checkAncientChannelPoints (lines 543-606).
CheckAncientChannel ==
    /\ pc = "lookup"
    /\ ancientPos <= Len(ancientChannels)
    /\ LET channel == ancientChannels[ancientPos]
       IN  \E tx \in TxAnswers(channel) :
            /\ txLookups' = Append(txLookups, [op |-> channel.OP, answer |-> tx])
            /\ IF ~tx.ok
               THEN /\ ReturnFromAncient("LookupError", <<>>)
                    /\ UNCHANGED <<examined, ancientPos, ancientTargets>>
               ELSE IF channel.OP.Index >= Len(tx.Vout)
               THEN /\ pc' = "panic"
                    /\ err' = "index out of range"
                    /\ UNCHANGED <<targets, examined, ancientPos,
                                   ancientTargets>>
               ELSE LET key == keyInCache(recoveryWindow, channel.Addr,
                                          channel.CP)
                    IN  /\ examined' = Append(examined, Examined(channel, key))
                        /\ IF ~key.found
                           THEN /\ ReturnFromAncient(errAddrNotFound, <<>>)
                                /\ UNCHANGED <<ancientPos, ancientTargets>>
                           ELSE /\ ancientTargets' = Append(ancientTargets,
                                        AncientTarget(channel, key, tx))
                                /\ ancientPos' = ancientPos + 1
                                /\ UNCHANGED <<pc, err, targets>>
    /\ UNCHANGED <<libVars, paramVars, scanVars, channels, ancientChannels,
                   buildVars, signVars>>

\* Line 608 and lines 201-208: the loop is over, the targets are returned
\* and appended to the scan's.
ReturnAncientTargets ==
    /\ pc = "lookup"
    /\ ancientPos > Len(ancientChannels)
    /\ ReturnFromAncient("", ancientTargets)
    /\ UNCHANGED <<libVars, paramVars, scanVars, ancientVars, buildVars, signVars>>

\* ------------------------------------------------- sweep builder/signer
MaxTxInSequenceNum == "0xffffffff"
NilSignDesc ==
    [KeyDesc |-> KeyDesc(-1), WitnessScript |-> Nil, SingleTweak |-> Nil,
     Output |-> [Value |-> 0, PkScript |-> Nil], HashType |-> "",
     InputIndex |-> -1, SignMethod |-> "nil", ControlBlock |-> Nil,
     TapTweak |-> Nil, SigHashes |-> Nil]

\* The wire.TxOut of a utxo.
TxOutOf(utxo) == [Value |-> utxo.Value, PkScript |-> utxo.PkScript]

\* Mutant of SignDescFor: the switch has no case for a target that carries
\* a tweak, whose descriptor stays nil.
SignDescFor_NoTweaked(target, utxo, inputIndex) ==
    IF target.tweak # Nil THEN NilSignDesc
    ELSE [NilSignDesc EXCEPT
            !.KeyDesc = target.keyDesc, !.WitnessScript = target.script,
            !.Output = TxOutOf(utxo), !.HashType = "SigHashAll",
            !.InputIndex = inputIndex, !.SignMethod = "WitnessV0SignMethod"]

\* The sign descriptor the type switch of lines 232-292 makes for an input
\* of `target`; no case matches another address type and the descriptor
\* stays nil.
SignDescFor(target, utxo, inputIndex) ==
    CASE target.addr.type = "p2wkh" ->
            [NilSignDesc EXCEPT
                !.KeyDesc = target.keyDesc, !.WitnessScript = target.script,
                !.SingleTweak = target.tweak, !.Output = TxOutOf(utxo),
                !.HashType = "SigHashAll", !.InputIndex = inputIndex,
                !.SignMethod = "WitnessV0SignMethod"]
      [] target.addr.type = "p2wsh" ->
            [NilSignDesc EXCEPT
                !.KeyDesc = target.keyDesc, !.WitnessScript = target.script,
                !.Output = TxOutOf(utxo), !.HashType = "SigHashAll",
                !.InputIndex = inputIndex,
                !.SignMethod = "WitnessV0SignMethod"]
      [] target.addr.type = "p2tr" ->
            [NilSignDesc EXCEPT
                !.KeyDesc = target.keyDesc,
                !.WitnessScript = target.scriptTree.SettleLeaf,
                !.Output = TxOutOf(utxo), !.HashType = "SigHashDefault",
                !.ControlBlock = target.scriptTree.CtrlBlock,
                !.InputIndex = inputIndex,
                !.SignMethod = "TaprootScriptSpendSignMethod",
                !.TapTweak = target.scriptTree.TapscriptRoot]
      [] OTHER -> NilSignDesc

\* The estimator after the input of `target` was added (lines 234-263).
EstimateInput(e, target) ==
    CASE target.addr.type = "p2wkh" -> AddWitnessInput(e, P2WKHWitnessSize)
      [] target.addr.type = "p2wsh" ->
            AddWitnessInput(e, ToRemoteConfirmedWitnessSize)
      [] target.addr.type = "p2tr" ->
            AddWitnessInput(e, TaprootToRemoteWitnessSize)
      [] OTHER -> e

\* The sequence number of the input of `target` (lines 226, 250, 265).
SequenceFor(target) ==
    IF target.addr.type \in {"p2wsh", "p2tr"} THEN "1"
    ELSE MaxTxInSequenceNum

\* MultiPrevOutFetcher.AddPrevOut: a map from outpoint to output.
AddPrevOut(fetcher, op, txOut) ==
    {p \in fetcher : p.op # op} \cup {[op |-> op, out |-> txOut]}

\* Mutant of NextBuildPos: the inner loop leaves a target after its first
\* utxo.
NextBuildPos_SkipRest(ts, pos) == <<pos[1] + 1, 1>>

\* The position of the loops of lines 219-220 after the utxo at pos.
NextBuildPos(ts, pos) ==
    IF pos[2] < Len(ts[pos[1]].utxos) THEN <<pos[1], pos[2] + 1>>
    ELSE <<pos[1] + 1, 1>>

\* One iteration of the inner loop of lines 220-295: the utxo becomes an
\* input with its sign descriptor and weight.
AddInput ==
    /\ pc = "build"
    /\ buildPos[1] <= Len(targets)
    /\ LET target == targets[buildPos[1]]
           utxo == target.utxos[buildPos[2]]
           txIn == [PreviousOutPoint |-> utxo.OutPoint,
                    Sequence |-> SequenceFor(target), Witness |-> Nil]
           inputIndex == Len(sweepTx.TxIn)
       IN  /\ totalOutputValue' = totalOutputValue + utxo.Value
           /\ prevOutFetcher' = AddPrevOut(prevOutFetcher, utxo.OutPoint,
                                           TxOutOf(utxo))
           /\ sweepTx' = [sweepTx EXCEPT !.TxIn = Append(@, txIn)]
           /\ estimator' = EstimateInput(estimator, target)
           /\ signDescs' = Append(signDescs,
                                  SignDescFor(target, utxo, inputIndex))
           /\ buildPos' = NextBuildPos(targets, buildPos)
    /\ UNCHANGED <<libVars, pc, err, paramVars, scanVars, targets, ancientVars,
                   sigHashes, sigHashCount, signVars>>

\* The dust check of line 298.
BelowDust(ts, total) == Len(ts) = 0 \/ total < sweepDustLimit

\* Lines 306-307: SatPerKVByte(1000 * feeRate).FeePerKWeight() and
\* FeeForWeight of the estimated weight.
TotalFee(rate, weight) ==
    (((1000 * rate) \div WitnessScaleFactor) * weight) \div 1000

\* Mutant of NewTxSigHashes: the context is computed before the output is
\* added.
NewTxSigHashes_BeforeOutput(tx, fetcher) ==
    <<[i \in 1..Len(tx.TxIn) |->
        [op |-> tx.TxIn[i].PreviousOutPoint, seq |-> tx.TxIn[i].Sequence,
         prev |-> {p.out : p \in {q \in fetcher :
                                    q.op = tx.TxIn[i].PreviousOutPoint}}]],
      <<>>>>

\* txscript.NewTxSigHashes: what the context commits to, the outpoints and
\* sequences of all inputs, their previous outputs and all outputs.
NewTxSigHashes(tx, fetcher) ==
    <<[i \in 1..Len(tx.TxIn) |->
        [op |-> tx.TxIn[i].PreviousOutPoint, seq |-> tx.TxIn[i].Sequence,
         prev |-> {p.out : p \in {q \in fetcher :
                                    q.op = tx.TxIn[i].PreviousOutPoint}}]],
      tx.TxOut>>

\* Lines 298-324, after the last input: the dust check, the fee, the single
\* output and the signature-hash context.
SetOutput ==
    /\ pc = "build"
    /\ buildPos[1] > Len(targets)
    /\ IF BelowDust(targets, totalOutputValue)
       THEN /\ pc' = "error"
            /\ err' = "InsufficientFunds"
            /\ UNCHANGED <<feeRate, sweepTx, sigHashes, sigHashCount>>
       ELSE \E rate \in FeeRates :
            LET totalFee == TotalFee(rate, Weight(estimator))
                tx == [sweepTx EXCEPT !.TxOut =
                        <<[Value |-> totalOutputValue - totalFee,
                           PkScript |-> sweepScript]>>]
            IN  /\ feeRate' = rate
                /\ sweepTx' = tx
                /\ sigHashes' = NewTxSigHashes(tx, prevOutFetcher)
                /\ sigHashCount' = sigHashCount + 1
                /\ pc' = "sign"
                /\ err' = err
    /\ UNCHANGED <<libVars, recoveryWindow, publish, sweepScript, scanVars,
                   targets, ancientVars, estimator, signDescs, totalOutputValue,
                   prevOutFetcher, buildPos, signVars>>

\* Mutant of SignProcedure: the sign method is not looked at.
SignProcedure_ByScript(desc) ==
    IF Len(desc.WitnessScript) > 0 THEN "CommitSpendToRemoteConfirmed"
    ELSE "CommitSpendNoDelay"

\* The signing procedure the switch of lines 329-363 picks for a descriptor.
SignProcedure(desc) ==
    IF desc.SignMethod = "TaprootScriptSpendSignMethod"
    THEN "TaprootCommitSpendSuccess"
    ELSE IF Len(desc.WitnessScript) > 0
         THEN "CommitSpendToRemoteConfirmed"
         ELSE "CommitSpendNoDelay"

\* The descriptor as handed to the signing procedure (lines 326-327, 355).
PrepareDesc(desc, idx, hashes) ==
    LET d == [desc EXCEPT !.SigHashes = hashes, !.InputIndex = idx]
    IN  IF SignProcedure(d) = "CommitSpendNoDelay"
        THEN [d EXCEPT !.WitnessScript = d.Output.PkScript]
        ELSE d

\* The witness a signing procedure returns: which procedure signed, with
\* which key, script and tweak, over which context and input.
WitnessOf(proc, d) ==
    <<proc, d.KeyDesc.Index, d.WitnessScript, d.SingleTweak, d.HashType,
      d.InputIndex, d.SigHashes>>

\* One iteration of the signing loop (lines 325-364); a signing failure
\* returns the error, a nil descriptor is dereferenced at line 326.
SignInput ==
    /\ pc = "sign"
    /\ signIdx < Len(signDescs)
    /\ IF signDescs[signIdx + 1] = NilSignDesc
       THEN /\ pc' = "panic"
            /\ err' = "nil pointer dereference"
            /\ UNCHANGED <<signDescs, sweepTx, signIdx>>
       ELSE LET idx == signIdx
                desc == PrepareDesc(signDescs[idx + 1], idx, sigHashes)
                proc == SignProcedure(signDescs[idx + 1])
            IN  /\ signDescs' = [signDescs EXCEPT ![idx + 1] = desc]
                /\ \E ok \in BOOLEAN :
                    IF ok
                    THEN /\ sweepTx' = [sweepTx EXCEPT
                              !.TxIn[idx + 1].Witness = WitnessOf(proc, desc)]
                         /\ signIdx' = signIdx + 1
                         /\ UNCHANGED <<pc, err>>
                    ELSE /\ pc' = "error"
                         /\ err' = "SigningError"
                         /\ UNCHANGED <<sweepTx, signIdx>>
    /\ UNCHANGED <<libVars, paramVars, scanVars, targets, ancientVars, estimator,
                   totalOutputValue, prevOutFetcher, buildPos, sigHashes,
                   sigHashCount, buf, published, printed>>

\* Lines 366-385: the transaction is serialised, published when the flag
\* is set, and logged.
Finish ==
    /\ pc = "sign"
    /\ signIdx = Len(signDescs)
    /\ buf' = sweepTx
    /\ \E pub \in BOOLEAN, ok \in BOOLEAN :
        /\ publish' = pub
        /\ IF pub /\ ~ok
           THEN /\ pc' = "error"
                /\ err' = "PublishError"
                /\ UNCHANGED <<published, printed>>
           ELSE /\ published' = pub
                /\ printed' = TRUE
                /\ pc' = "done"
                /\ err' = err
    /\ UNCHANGED <<libVars, recoveryWindow, feeRate, sweepScript, scanVars,
                   targets, ancientVars, buildVars, signIdx>>

Next ==
    \/ DeriveIndex
    \/ QueryAddress
    \/ FindAncientChannels
    \/ CheckAncientChannel
    \/ ReturnAncientTargets
    \/ AddInput
    \/ SetOutput
    \/ SignInput
    \/ Finish

Spec == Init /\ [][Next]_vars

\* ================================================================ claims
\* The operation got past the assembly: the output is set.
Built == pc \in {"sign", "done"} \/ buf # Nil

\* The target that owns each input, in input order.
InputOwners(ts) ==
    Flatten([t \in 1..Len(ts) |-> [u \in 1..Len(ts[t].utxos) |-> ts[t]]])

\* C1: whenever the value of all discovered outputs minus the fee is below
\* the dust floor of 600 the sweep fails before any input is signed, so the
\* output of a signed transaction is never below 600.
C1_OutputAboveDust ==
    (signIdx > 0 \/ pc = "done") => sweepTx.TxOut[1].Value >= sweepDustLimit

\* The witness size the estimator is given for an input of address type t.
C2_WitnessSize(t) ==
    CASE t = "p2wkh" -> 109 [] t = "p2wsh" -> 113 [] t = "p2tr" -> 141

RECURSIVE C2_SumWitness(_)
C2_SumWitness(owners) ==
    IF owners = <<>> THEN 0
    ELSE C2_WitnessSize(Head(owners).addr.type) + C2_SumWitness(Tail(owners))

\* The fee of a sweep of the targets ts, from the sizes of its parts.
C2_Fee(ts, rate, script) ==
    LET n == Len(InputOwners(ts))
        out == IF script[2].type = "p2tr" THEN 43 ELSE 31
        weight == 4 * (8 + 1 + 41 * n + 1 + out) + 2
                    + C2_SumWitness(InputOwners(ts))
    IN  ((250 * rate) * weight) \div 1000

\* C2: a built sweep transaction has one input per UTXO of every target, in
\* target order then UTXO order, and exactly one output, which pays the sweep
\* script the sum of the input values minus the fee.
C2_OneInputPerUtxo ==
    Built =>
        /\ Len(sweepTx.TxIn) = Len(AllUtxos(targets))
        /\ \A i \in 1..Len(sweepTx.TxIn) :
             sweepTx.TxIn[i].PreviousOutPoint = AllUtxos(targets)[i].OutPoint
        /\ Len(sweepTx.TxOut) = 1
        /\ sweepTx.TxOut[1].PkScript = sweepScript
        /\ sweepTx.TxOut[1].Value =
             SumValues(AllUtxos(targets)) - C2_Fee(targets, feeRate, sweepScript)

\* C2's case: a finished sweep of one target that holds two outputs.
C2_Witness ==
    /\ pc = "done"
    /\ Len(targets) = 1
    /\ Len(sweepTx.TxIn) = 2

\* C3: without a derivation or lookup error the scan derives and queries
\* every index of the window once, in ascending order, for the three
\* families, whatever the earlier answers were: it ends only at the end of
\* the window or by an error.
C3_ScanIsLinear ==
    /\ \A d \in 1..Len(derived) : derived[d] = d - 1
    /\ \A q \in 1..Len(queries) :
         /\ queries[q].index = (q - 1) \div 3
         /\ queries[q].fam = ((q - 1) % 3) + 1
    /\ pc \notin {"scan", "error"} =>
         /\ Len(derived) = recoveryWindow
         /\ Len(queries) = 3 * recoveryWindow
    /\ (pc = "error" /\ Len(queries) < 3 * recoveryWindow) =>
         \/ err = "DerivationError"
         \/ err = "LookupError" /\ ~queries[Len(queries)].answer.ok

\* C3's case: the scan of a window of 2 is over, index 0 had funds for its
\* first family and every later query had none.
C3_Witness ==
    /\ pc = "ancient"
    /\ recoveryWindow = 2
    /\ Len(queries[1].answer.vouts) > 0
    /\ \A q \in 2..Len(queries) : queries[q].answer.vouts = <<>>

\* The target the scan owes for a query that was answered with outputs.
C4_TargetOf(q) ==
    [addr |-> [type |-> Families[q.fam], key |-> q.index, cp |-> NoCP],
     keyDesc |-> [PubKey |-> q.index, Family |-> "PaymentBase",
                  Index |-> q.index],
     tweak |-> <<>>,
     utxos |-> [j \in 1..Len(q.answer.vouts) |->
                 [Value |-> q.answer.vouts[j].Value,
                  PkScript |-> q.answer.vouts[j].ScriptPubkey,
                  OutPoint |-> [Hash |-> q.answer.vouts[j].Txid,
                                Index |-> q.answer.vouts[j].Vin]]],
     script |-> IF q.fam = 2 THEN <<"to_remote_confirmed", q.index>>
                ELSE <<>>,
     scriptTree |-> IF q.fam = 3
                    THEN [SettleLeaf |-> <<"settle_leaf", q.index>>,
                          TapscriptRoot |-> <<"tap_root", q.index>>,
                          CtrlBlock |-> <<"ctrl_block", q.index>>]
                    ELSE NilTree]

\* The queries that were answered with at least one unspent output.
C4_Hits ==
    SelectSeq(queries, LAMBDA q : q.answer.ok /\ Len(q.answer.vouts) > 0)

\* The targets so far: those of the finished indices and those of the index
\* being queried.
C4_Targets == targets \o foundTargets

\* C4: the scan emits a target for a key and family exactly when the lookup
\* of that address returns outputs; the target carries those outputs, the
\* key descriptor of the index and the script or script tree of the family;
\* an address without outputs gives no target and no error.
C4_TargetIffUnspent ==
    /\ Len(C4_Targets) >= Len(C4_Hits)
    /\ \A t \in 1..Len(C4_Hits) : C4_Targets[t] = C4_TargetOf(C4_Hits[t])
    /\ \A t \in (Len(C4_Hits) + 1)..Len(C4_Targets) :
         C4_Targets[t] \in {ancientTargets[a] : a \in 1..Len(ancientTargets)}
    /\ \A q \in 1..Len(queries) :
         queries[q].answer.ok \/ (q = Len(queries) /\ pc = "error")

\* C4's case: the scan is over, one address had no output and a taproot
\* address had one.
C4_Witness ==
    /\ pc = "ancient"
    /\ \E q \in 1..Len(queries) : queries[q].answer.vouts = <<>>
    /\ \E t \in 1..Len(targets) : targets[t].addr.type = "p2tr"

\* findAncientChannels returned without an error.
MatcherPassed == pc \in {"lookup", "build", "sign", "done"} \/ txLookups # <<>>

\* The records of the list whose address is the tweaked address of a key
\* inside the window, tweaked with the record's own commit point.
OwnRecords ==
    SelectSeq(channels, LAMBDA ch :
        ch.Addr.cp = ch.CP /\ ch.Addr.key < recoveryWindow)

\* C5: a record whose close address was made by tweaking the key of index k
\* with the record's commit point is returned, with key index k, when the
\* window is greater than k, and is reported not found when the window is at
\* most k.
C5_LegacyMatch ==
    /\ MatcherPassed =>
         /\ Len(examined) >= Len(channels)
         /\ \A n \in 1..Len(channels) :
              LET ch == channels[n]
                  k == ch.Addr.key
                  ix == examined[n].indices
              IN  ch.Addr.cp = ch.CP =>
                    /\ k < recoveryWindow =>
                         /\ examined[n].found
                         /\ ix[Len(ix)] = k
                         /\ \E a \in 1..Len(ancientChannels) :
                                ancientChannels[a] = ch
                    /\ k >= recoveryWindow =>
                         /\ ~examined[n].found
                         /\ \A a \in 1..Len(ancientChannels) :
                                ancientChannels[a] # ch
    /\ \A a \in 1..Len(ancientTargets) :
         /\ ancientTargets[a].addr = ancientChannels[a].Addr
         /\ ancientTargets[a].keyDesc.Index = ancientChannels[a].Addr.key

\* C5's case: over a window of 2, a record made from index 2 is not found
\* and a record made from index 1 is returned with its target.
C5_Witness ==
    /\ pc = "build"
    /\ recoveryWindow = 2
    /\ Len(channels) = 2
    /\ channels[1].Addr.key = 2 /\ channels[1].CP # BadCP
    /\ channels[2].Addr.key = 1 /\ channels[2].CP # BadCP
    /\ Len(ancientTargets) = 1
    /\ ancientTargets[1].keyDesc.Index = 1

\* C6: errAddrNotFound is the only error absorbed: a record without a match
\* is skipped, the other records are still examined, the targets of the scan
\* and of the other records are kept and the sweep goes on; any other error
\* of the matching ends the operation.
C6_OnlyNotFoundAbsorbed ==
    /\ err # errAddrNotFound
    /\ MatcherPassed =>
         /\ Len(examined) >= Len(channels)
         /\ \A n \in 1..Len(channels) : examined[n].op = channels[n].OP
    /\ pc \in {"build", "sign", "done"} =>
         /\ Len(targets) = Len(C4_Hits) + Len(ancientTargets)
         /\ \A t \in 1..Len(C4_Hits) : targets[t] = C4_TargetOf(C4_Hits[t])
         /\ \A a \in 1..Len(ancientTargets) :
              targets[Len(C4_Hits) + a] = ancientTargets[a]
         /\ Len(ancientTargets) = Len(OwnRecords)
    /\ (\E n \in 1..Len(channels) : channels[n].CP = BadCP) =>
         pc = "error" /\ err \in {"DecodeError", "DerivationError"}
    /\ (\E l \in 1..Len(txLookups) : ~txLookups[l].answer.ok) =>
         pc = "error" /\ err = "LookupError"

\* C6's case: the first of two records is not found, the second is, and
\* the sweep is done with the second's target.
C6_Witness ==
    /\ pc = "done"
    /\ Len(channels) = 2
    /\ ~examined[1].found
    /\ examined[2].found
    /\ Len(targets) = 1

\* The record of the list with close outpoint op.
C7_RecordAt(op) == CHOOSE n \in 1..Len(channels) : channels[n].OP = op

\* C7: the matcher tries the cached indices in ascending order and stops at
\* a record's first match, so no index above it is tried; a record gives at
\* most one target, with one utxo, at the record's close outpoint.
C7_FirstMatchWins ==
    /\ \A e \in 1..Len(examined) :
         LET ix == examined[e].indices
             ch == channels[C7_RecordAt(examined[e].op)]
         IN  /\ \A j \in 1..Len(ix) : ix[j] = j - 1
             /\ examined[e].found => Len(ix) = ch.Addr.key + 1
             /\ ~examined[e].found => Len(ix) = recoveryWindow
    /\ Len(ancientTargets) <= Len(ancientChannels)
    /\ \A a \in 1..Len(ancientTargets) :
         /\ Len(ancientTargets[a].utxos) = 1
         /\ ancientTargets[a].utxos[1].OutPoint = ancientChannels[a].OP
    /\ \A a, b \in 1..Len(ancientChannels) :
         a # b => ancientChannels[a].OP # ancientChannels[b].OP

\* C7's case: two records are matched, the second at index 0 of a window of
\* 2, and both have their target.
C7_Witness ==
    /\ recoveryWindow = 2
    /\ Len(ancientTargets) = 2
    /\ ancientChannels[2].Addr.key = 0
    /\ ancientChannels[1].Addr.key = 1

\* C8: a failed chain lookup or a failed signing step ends the operation
\* with an error and no transaction serialised, printed or published; a
\* transaction is serialised only with every input signed and published only
\* when the publish flag is set.
C8_AllOrNothing ==
    /\ ( \/ \E q \in 1..Len(queries) : ~queries[q].answer.ok
         \/ \E l \in 1..Len(txLookups) : ~txLookups[l].answer.ok
         \/ err = "SigningError" )
         => pc = "error" /\ buf = Nil /\ ~printed /\ ~published
    /\ pc \in {"error", "panic"} => ~printed /\ ~published
    /\ published => publish /\ pc = "done"
    /\ (buf # Nil \/ printed \/ published) =>
         /\ Len(sweepTx.TxIn) = Len(AllUtxos(targets))
         /\ \A i \in 1..Len(sweepTx.TxIn) : sweepTx.TxIn[i].Witness # Nil

\* C8's case: the first input was signed and the signing of the second
\* failed.
C8_Witness ==
    /\ err = "SigningError"
    /\ signIdx = 1
    /\ sweepTx.TxIn[1].Witness # Nil

\* C9: every input is signed by the procedure of its own address type:
\* taproot by the settle-leaf script path, witness script hash by the anchor
\* to-remote procedure, witness key hash by the plain procedure, with the
\* output's locking script as witness script and the target's tweak; for the
\* targets of the scan and of the legacy matcher.
C9_SignedByFamily ==
    \A i \in 1..Len(sweepTx.TxIn) :
        LET w == sweepTx.TxIn[i].Witness
            t == InputOwners(targets)[i]
            u == AllUtxos(targets)[i]
        IN  w # Nil =>
              /\ t.addr.type = "p2tr" =>
                   /\ w[1] = "TaprootCommitSpendSuccess"
                   /\ w[3] = t.scriptTree.SettleLeaf
              /\ t.addr.type = "p2wsh" =>
                   /\ w[1] = "CommitSpendToRemoteConfirmed"
                   /\ w[3] = t.script
              /\ t.addr.type = "p2wkh" =>
                   /\ w[1] = "CommitSpendNoDelay"
                   /\ w[3] = u.PkScript
                   /\ w[4] = t.tweak
              /\ w[2] = t.keyDesc.Index

\* C9's case: a finished sweep of a taproot output of the scan and of a
\* legacy output with its tweak.
C9_Witness ==
    /\ pc = "done"
    /\ Len(sweepTx.TxIn) = 2
    /\ targets[1].addr.type = "p2tr"
    /\ sweepTx.TxIn[2].Witness[4] # Nil

\* The vouts the lookup answered for family f of index i.
C10_Answer(i, f) ==
    LET q == CHOOSE q \in 1..Len(queries) :
                queries[q].index = i /\ queries[q].fam = f
    IN  queries[q].answer.vouts

\* The outpoints of the scan's answers by ascending index, then family, then
\* the answer's order.
C10_ScanOutpoints ==
    Flatten([n \in 1..(3 * recoveryWindow) |->
        LET v == C10_Answer((n - 1) \div 3, ((n - 1) % 3) + 1)
        IN  [j \in 1..Len(v) |-> [Hash |-> v[j].Txid, Index |-> v[j].Vin]]])

\* The close outpoints of the wallet's own records, in record order.
C10_LegacyOutpoints == [a \in 1..Len(OwnRecords) |-> OwnRecords[a].OP]

\* C10: the inputs of a built transaction are a function of the window, the
\* lookup answers and the records: the scan's outputs by ascending index,
\* then family, then answer order, followed by the legacy outputs in record
\* order; so two runs over the same inputs give the same input sequence.
C10_InputOrder ==
    Built =>
        [i \in 1..Len(sweepTx.TxIn) |-> sweepTx.TxIn[i].PreviousOutPoint]
            = C10_ScanOutpoints \o C10_LegacyOutpoints

\* C10's case: a finished sweep whose first input is an output of the scan
\* at index 1 and whose second is a legacy output.
C10_Witness ==
    /\ pc = "done"
    /\ Len(targets) = 2
    /\ targets[1].keyDesc.Index = 1 /\ targets[1].tweak = Nil
    /\ targets[2].tweak # Nil

\* ================================================== lnd/hdkeychain.go
\* A uint32 is kept as its top bit h and its low 31 bits n: the value is
\* h * 2^31 + n.  Addition and subtraction of the hardened offset 2^31,
\* modulo 2^32, flip the top bit and leave the low bits alone.
Uint32(h, n) == [h |-> h, n |-> n]

HardenedKeyStart == Uint32(1, 0)

\* x + HardenedKeyStart and x - HardenedKeyStart in uint32 arithmetic.
AddHardened(x) == Uint32((x.h + 1) % 2, x.n)
SubHardened(x) == Uint32((x.h + 2 - 1) % 2, x.n)

IsZero32(x) == x.h = 0 /\ x.n = 0

\* The longest path handed to DeriveChildren.
MaxPathLen == 3

\* The path indices tried: 0 and 1, hardened and not.
PathIndices == {Uint32(h, n) : h \in {0, 1}, n \in {0, 1}}

Paths == UNION {[1..l -> PathIndices] : l \in 0..MaxPathLen}

\* The depths of the keys DeriveChildren is started from: the master key, a
\* child of it, and the family key of HDKeyRing (m/1017'/coin'/family'/0).
StartDepths == {0, 1, 4}

\* An extended key: its depth, the child numbers that lead to it, and
\* whether it was rebuilt from its serialised string.
ExtendedKey(depth) == [depth |-> depth, path |-> <<>>, rebuilt |-> FALSE]

\* ExtendedKey.DeriveNonStandard: the child of key with the given number.
DeriveNonStandard(key, pathPart) ==
    [depth |-> key.depth + 1, path |-> Append(key.path, pathPart),
     rebuilt |-> FALSE]

\* hdkeychain.NewKeyFromString(key.String()): the key is serialised with its
\* depth and child number and parsed again, which pads the key bytes.
NewKeyFromString(key) ==
    [depth |-> key.depth, path |-> key.path, rebuilt |-> TRUE]

\* Lines 48-54: whether the key derived at position idx of the path goes
\* through its string form.
RoundTripped(derivedKey, path, idx) ==
    LET depth == derivedKey.depth
        keyID == SubHardened(path[idx])
        nextID == IF depth = 2 /\ Len(path) > 2
                  THEN SubHardened(path[idx + 1])
                  ELSE Uint32(0, 0)
    IN  (depth = 2 /\ ~IsZero32(nextID)) \/ (depth = 3 /\ ~IsZero32(keyID))

\* The loop of DeriveChildren from position idx on; trips logs, per step,
\* whether the derived key was rebuilt from its string; failAt is the step
\* at which DeriveNonStandard fails (0: never).
RECURSIVE DeriveChildrenFrom(_, _, _, _, _)
DeriveChildrenFrom(currentKey, path, idx, trips, failAt) ==
    IF idx > Len(path)
    THEN [key |-> currentKey, err |-> "", trips |-> trips]
    ELSE IF idx = failAt
    THEN [key |-> Nil, err |-> "DeriveError", trips |-> trips]
    ELSE LET derivedKey == DeriveNonStandard(currentKey, path[idx])
             trip == RoundTripped(derivedKey, path, idx)
         IN  DeriveChildrenFrom(
                 IF trip THEN NewKeyFromString(derivedKey) ELSE derivedKey,
                 path, idx + 1, Append(trips, trip), failAt)

DeriveChildren(key, path, failAt) ==
    DeriveChildrenFrom(key, path, 1, <<>>, failAt)

\* A call of DeriveChildren.
ApplyDeriveChildren ==
    /\ call = NoCall
    /\ \E depth \in StartDepths, path \in Paths :
         \E failAt \in 0..Len(path) :
            /\ call' = [fn |-> "DeriveChildren", key |-> ExtendedKey(depth),
                        path |-> path, failAt |-> failAt]
            /\ result' = DeriveChildren(ExtendedKey(depth), path, failAt)
    /\ UNCHANGED sweepVars

\* ----------------------------------------------------------- ParsePath
\* A text is the sequence of its characters.
Space == " "
Quote == "'"
Slash == "/"

\* strings.TrimSpace, strings.TrimRight with a one-character cutset,
\* strings.HasPrefix, strings.Contains of one character.
RECURSIVE TrimLeft(_, _)
TrimLeft(s, c) ==
    IF Len(s) > 0 /\ s[1] = c THEN TrimLeft(Tail(s), c) ELSE s

RECURSIVE TrimRight(_, _)
TrimRight(s, c) ==
    IF Len(s) > 0 /\ s[Len(s)] = c
    THEN TrimRight(SubSeq(s, 1, Len(s) - 1), c)
    ELSE s

TrimSpace(s) == TrimRight(TrimLeft(s, Space), Space)

HasPrefix(s, prefix) ==
    Len(s) >= Len(prefix) /\ SubSeq(s, 1, Len(prefix)) = prefix

Contains(s, c) == \E i \in 1..Len(s) : s[i] = c

\* strings.Split with a one-character separator: the parts between the
\* separators, empty parts included.
RECURSIVE SplitFrom(_, _, _, _)
SplitFrom(s, sep, current, parts) ==
    IF Len(s) = 0 THEN Append(parts, current)
    ELSE IF s[1] = sep
    THEN SplitFrom(Tail(s), sep, <<>>, Append(parts, current))
    ELSE SplitFrom(Tail(s), sep, Append(current, s[1]), parts)

Split(s, sep) == SplitFrom(s, sep, <<>>, <<>>)

\* The decimal digits; the digit at position d stands for d - 1.
Digits == <<"0", "1", "2", "3", "4", "5", "6", "7", "8", "9">>

IsDigit(c) == \E d \in 1..Len(Digits) : Digits[d] = c

DigitValue(c) == (CHOOSE d \in 1..Len(Digits) : Digits[d] = c) - 1

\* The largest 31-bit number, 2^31 - 1.
MaxInt31 == 2147483647

\* A number of any size is hi * 2^31 + lo with 0 <= lo < 2^31.  v * 10 + d,
\* computed on the 15-bit and 16-bit halves of lo.
TimesTenPlus(v, d) ==
    LET t == 10 * (v.lo % 65536) + d
        a == 10 * (v.lo \div 65536) + (t \div 65536)
    IN  [hi |-> 10 * v.hi + (a \div 32768),
         lo |-> (a % 32768) * 65536 + (t % 65536)]

RECURSIVE Magnitude(_, _)
Magnitude(digits, v) ==
    IF Len(digits) = 0 THEN v
    ELSE Magnitude(Tail(digits), TimesTenPlus(v, DigitValue(digits[1])))

\* strconv.Atoi: an optional sign and at least one decimal digit, the value
\* within the range of int (intSize bits).
Atoi(s, intSize) ==
    LET signed == Len(s) > 0 /\ s[1] \in {"+", "-"}
        digits == IF signed THEN Tail(s) ELSE s
        neg == signed /\ s[1] = "-"
        wellFormed == Len(digits) > 0
                        /\ \A i \in 1..Len(digits) : IsDigit(digits[i])
        mag == Magnitude(digits, [hi |-> 0, lo |-> 0])
        fits == IF intSize = 32
                THEN mag.hi = 0 \/ (neg /\ mag.hi = 1 /\ mag.lo = 0)
                ELSE mag.hi \div 2 <= MaxInt31
    IN  IF ~wellFormed THEN [err |-> "invalid syntax", neg |-> FALSE,
                             hi |-> 0, lo |-> 0]
        ELSE IF ~fits THEN [err |-> "value out of range", neg |-> FALSE,
                             hi |-> 0, lo |-> 0]
        ELSE [err |-> "", neg |-> neg /\ (mag.hi # 0 \/ mag.lo # 0),
              hi |-> mag.hi, lo |-> mag.lo]

\* The conversion uint32(parsed) of line 90: the value modulo 2^32.
ToUint32(parsed) ==
    IF ~parsed.neg THEN Uint32(parsed.hi % 2, parsed.lo)
    ELSE IF parsed.lo = 0 THEN Uint32(parsed.hi % 2, 0)
    ELSE Uint32(1 - (parsed.hi % 2), (MaxInt31 - parsed.lo) + 1)

\* The loop of lines 78-91 from part i on (parts[1] is the "m").
RECURSIVE ParseParts(_, _, _, _)
ParseParts(parts, i, indices, intSize) ==
    IF i > Len(parts) THEN [err |-> "", indices |-> indices]
    ELSE LET hardened == Contains(parts[i], Quote)
             part == IF hardened THEN TrimRight(parts[i], Quote)
                     ELSE parts[i]
             parsed == Atoi(part, intSize)
         IN  IF parsed.err # ""
             THEN [err |-> "could not parse part", indices |-> <<>>]
             ELSE ParseParts(parts, i + 1,
                     Append(indices, IF hardened
                                     THEN AddHardened(ToUint32(parsed))
                                     ELSE ToUint32(parsed)),
                     intSize)

ParsePath(text, intSize) ==
    LET path == TrimSpace(text)
    IN  IF Len(path) = 0
        THEN [err |-> "path cannot be empty", indices |-> <<>>]
        ELSE IF ~HasPrefix(path, <<"m", Slash>>)
        THEN [err |-> "path must start with m/", indices |-> <<>>]
        ELSE ParseParts(Split(path, Slash), 2, <<>>, intSize)

\* The segments a path text is put together from: numbers with and without
\* the hardened mark, signs, misplaced and repeated marks, and numbers
\* around 2^31 and 2^32.
SegmentTexts ==
    {<<>>,
     <<"0">>,
     <<"5">>,
     <<"0", "'">>,
     <<"5", "'">>,
     <<"5", "'", "'">>,
     <<"'", "5">>,
     <<"5", "'", "5">>,
     <<"x">>,
     <<"-", "5">>,
     <<"+", "5">>,
     <<"-", "5", "'">>,
     <<"-">>,
     <<"0", "7">>,
     <<" ", "5">>,
     <<"2", "1", "4", "7", "4", "8", "3", "6", "4", "7">>,
     <<"2", "1", "4", "7", "4", "8", "3", "6", "4", "8">>,
     <<"2", "1", "4", "7", "4", "8", "3", "6", "4", "8", "'">>,
     <<"4", "2", "9", "4", "9", "6", "7", "2", "9", "6">>}

\* The largest number of segments of a path text.
MaxSegments == 2

SegmentLists == UNION {[1..l -> SegmentTexts] : l \in 1..MaxSegments}

\* What the text starts with, and the blanks around it.
PathPrefixes == {<<"m", Slash>>, <<"x", Slash>>, <<Slash>>, <<>>}
Pads == {<<>>, <<Space>>}

\* The sizes of int the program is built with.
IntSizes == {32, 64}

\* strings.Join of the segments with "/".
RECURSIVE Join(_)
Join(segments) ==
    IF Len(segments) = 1 THEN segments[1]
    ELSE segments[1] \o <<Slash>> \o Join(Tail(segments))

PathText(pad, prefix, segments) == pad \o prefix \o Join(segments) \o pad

\* A call of ParsePath.
ApplyParsePath ==
    /\ call = NoCall
    /\ \E pad \in Pads, prefix \in PathPrefixes, segments \in SegmentLists,
          intSize \in IntSizes :
            /\ call' = [fn |-> "ParsePath", pad |-> pad, prefix |-> prefix,
                        segments |-> segments, intSize |-> intSize,
                        text |-> PathText(pad, prefix, segments)]
            /\ result' = ParsePath(PathText(pad, prefix, segments), intSize)
    /\ UNCHANGED sweepVars

\* ================================================== cln/derivation.go
InfoPeerSeed == "peer seed"
InfoPerPeer == "per-peer seed"
InfoCLightning == "c-lightning"

\* The hsm secrets, the peer keys (the x coordinate and the parity of y) and
\* the channel numbers FundingKey is applied to.
HsmSecrets == {"secretA", "secretB"}
PeerPubKeys == {[x |-> x, odd |-> odd] : x \in {1, 200}, odd \in BOOLEAN}
MaxChannelNum == 3
ChannelNums == 0..MaxChannelNum \cup {255, 256, 65537, 16777216}

PubKeySize == 33
ChannelNumSize == 8

\* PublicKey.SerializeCompressed: the parity byte and the 32 bytes of x,
\* big-endian.
SerializeCompressed(pubKey) ==
    <<IF pubKey.odd THEN 3 ELSE 2>>
        \o [j \in 1..(PubKeySize - 2) |-> 0] \o <<pubKey.x>>

\* binary.LittleEndian.PutUint64 generalised to size bytes: the least
\* significant byte comes first.
RECURSIVE PutUint_BigEndian(_, _)
PutUint_BigEndian(n, size) ==
    IF size = 0 THEN <<>>
    ELSE Append(PutUint_BigEndian(n \div 256, size - 1), n % 256)

RECURSIVE PutUint(_, _)
PutUint(n, size) ==
    IF size = 0 THEN <<>>
    ELSE <<n % 256>> \o PutUint(n \div 256, size - 1)

\* HKDF-SHA256 of the key material, salt and info; the 32 bytes read are
\* kept as the term they are computed from (Nil is the nil salt).
HkdfSha256(key, salt, info) ==
    [kdf |-> "hkdf-sha256", key |-> key, salt |-> salt, info |-> info]

\* btcec.PrivKeyFromBytes: the public key of the private key.
PrivKeyFromBytes(bytes) == [pubKeyOf |-> bytes]

FundingKey(hsmSecret, peerPubKey, channelNum) ==
    LET channelBase == HkdfSha256(hsmSecret, Nil, InfoPeerSeed)
        peerAndChannel == SerializeCompressed(peerPubKey)
                            \o PutUint(channelNum, ChannelNumSize)
        channelSeed == HkdfSha256(channelBase, peerAndChannel, InfoPerPeer)
        fundingKey == HkdfSha256(channelSeed, Nil, InfoCLightning)
    IN  PrivKeyFromBytes(fundingKey)

\* A call of FundingKey.
ApplyFundingKey ==
    /\ call = NoCall
    /\ \E hsmSecret \in HsmSecrets, peerPubKey \in PeerPubKeys,
          channelNum \in ChannelNums :
            /\ call' = [fn |-> "FundingKey", hsmSecret |-> hsmSecret,
                        peerPubKey |-> peerPubKey, channelNum |-> channelNum]
            /\ result' = FundingKey(hsmSecret, peerPubKey, channelNum)
    /\ UNCHANGED sweepVars

\* ------------------------------------------- HDKeyRing.CheckDescriptor
\* keychain.BIP0043Purpose and the coin type of the chain parameters.
BIP0043Purpose == 1017
HDCoinType == 0

\* keychain.MaxKeyRangeScan, the number of indices a family is scanned for,
\* scaled down.
MaxKeyRangeScan == 4

ErrCannotDerivePrivKey == "unable to derive private key"

\* The key families of the descriptors checked.
KeyFamilies == {0, 1}

\* ExtendedKey.ECPubKey: the public key of an extended key is given by the
\* child numbers that lead to it.
ECPubKey(key) == [path |-> key.path]

\* A descriptor without a public key, and a key of another wallet.
NoPubKey == [path |-> <<Uint32(0, 0)>>]
ForeignPubKey == [path |-> <<Uint32(1, 0)>>]

\* The path of the family key (lines 451-455).
FamilyPath(family) ==
    <<AddHardened(Uint32(0, BIP0043Purpose)),
      AddHardened(Uint32(0, HDCoinType)),
      AddHardened(Uint32(0, family)),
      Uint32(0, 0)>>

\* The public keys a descriptor may hold: none, a foreign one, and the
\* wallet's keys of each family up to one index past the scanned range.
DescriptorPubKeys ==
    {NoPubKey, ForeignPubKey}
        \cup {[path |-> Append(FamilyPath(f), Uint32(0, i))] :
                f \in KeyFamilies, i \in 0..MaxKeyRangeScan}

\* Mutant of CheckDescriptorFrom: the scan includes index MaxKeyRangeScan.
RECURSIVE CheckDescriptorFrom_OneMore(_, _, _, _, _, _)
CheckDescriptorFrom_OneMore(familyKey, keyDesc, i, scanned, failChild, failPubKey) ==
    IF ~(i <= MaxKeyRangeScan)
    THEN [err |-> ErrCannotDerivePrivKey, scanned |-> scanned]
    ELSE LET child == DeriveChildren(familyKey, <<Uint32(0, i)>>,
                                     IF i = failChild THEN 1 ELSE 0)
         IN  IF child.err # ""
             THEN [err |-> child.err, scanned |-> scanned]
             ELSE IF i = failPubKey
             THEN [err |-> "PubKeyError", scanned |-> Append(scanned, i)]
             ELSE IF ECPubKey(child.key) # keyDesc.PubKey
             THEN CheckDescriptorFrom_OneMore(familyKey, keyDesc, i + 1,
                      Append(scanned, i), failChild, failPubKey)
             ELSE [err |-> "", scanned |-> Append(scanned, i)]

\* The loop of lines 462-477 from index i on; scanned logs the indices whose
\* key was derived; failChild and failPubKey are the indices at which the
\* derivation and the public key fail (-1: never).
RECURSIVE CheckDescriptorFrom(_, _, _, _, _, _)
CheckDescriptorFrom(familyKey, keyDesc, i, scanned, failChild, failPubKey) ==
    IF ~(i < MaxKeyRangeScan)
    THEN [err |-> ErrCannotDerivePrivKey, scanned |-> scanned]
    ELSE LET child == DeriveChildren(familyKey, <<Uint32(0, i)>>,
                                     IF i = failChild THEN 1 ELSE 0)
         IN  IF child.err # ""
             THEN [err |-> child.err, scanned |-> scanned]
             ELSE IF i = failPubKey
             THEN [err |-> "PubKeyError", scanned |-> Append(scanned, i)]
             ELSE IF ECPubKey(child.key) # keyDesc.PubKey
             THEN CheckDescriptorFrom(familyKey, keyDesc, i + 1,
                      Append(scanned, i), failChild, failPubKey)
             ELSE [err |-> "", scanned |-> Append(scanned, i)]

\* HDKeyRing.CheckDescriptor; failFamily is the step of the family path at
\* which the derivation fails (0: never).
CheckDescriptor(keyDesc, failFamily, failChild, failPubKey) ==
    IF keyDesc.PubKey = NoPubKey
    THEN [err |-> "no public key provided to check", scanned |-> <<>>]
    ELSE LET familyKey == DeriveChildren(ExtendedKey(0),
                              FamilyPath(keyDesc.Family), failFamily)
         IN  IF familyKey.err # ""
             THEN [err |-> familyKey.err, scanned |-> <<>>]
             ELSE CheckDescriptorFrom(familyKey.key, keyDesc, 0, <<>>,
                                      failChild, failPubKey)

\* A call of CheckDescriptor.
ApplyCheckDescriptor ==
    /\ call = NoCall
    /\ \E family \in KeyFamilies, pubKey \in DescriptorPubKeys,
          failFamily \in {0, 3}, failChild \in -1..(MaxKeyRangeScan - 1),
          failPubKey \in -1..(MaxKeyRangeScan - 1) :
            LET keyDesc == [Family |-> family, Index |-> 0,
                            PubKey |-> pubKey]
            IN  /\ call' = [fn |-> "CheckDescriptor", keyDesc |-> keyDesc,
                            failFamily |-> failFamily,
                            failChild |-> failChild,
                            failPubKey |-> failPubKey]
                /\ result' = CheckDescriptor(keyDesc, failFamily, failChild,
                                             failPubKey)
    /\ UNCHANGED sweepVars

InitLib ==
    /\ Init
    /\ recoveryWindow = 1
    /\ sweepScript = PkScriptOf([type |-> "p2wkh", key |-> -1, cp |-> NoCP])

NextLib ==
    \/ ApplyDeriveChildren
    \/ ApplyParsePath
    \/ ApplyFundingKey
    \/ ApplyCheckDescriptor

SpecLib == InitLib /\ [][NextLib]_vars

\* ============================================== claims on the library
\* C11: in DeriveChildren the derived key goes through its string form
\* exactly when it is at depth 2 and the next segment's index without the
\* hardened offset is non-zero, or it is at depth 3 and the current segment's
\* index without the hardened offset is non-zero; an index of 0, hardened or
\* not, leaves the derived key used directly.
C11_RoundTripRule ==
    call.fn = "DeriveChildren" =>
        \A i \in 1..Len(result.trips) :
            LET depth == call.key.depth + i
            IN  result.trips[i] <=>
                    \/ /\ depth = 2
                       /\ i < Len(call.path)
                       /\ call.path[i + 1].n # 0
                    \/ /\ depth = 3
                       /\ call.path[i].n # 0

\* C12: ParsePath fails for every empty or malformed path text (empty after
\* trimming, not starting with "m/", or with a segment that is not a decimal
\* number optionally followed by the hardened mark); on success it returns a
\* non-empty sequence with one index per segment, in order, each hardened
\* segment offset by 2^31.
C12_Body(segment) ==
    IF Len(segment) > 0 /\ segment[Len(segment)] = Quote
    THEN SubSeq(segment, 1, Len(segment) - 1)
    ELSE segment

C12_WellFormed(segment) ==
    /\ Len(C12_Body(segment)) > 0
    /\ \A i \in 1..Len(C12_Body(segment)) : IsDigit(C12_Body(segment)[i])

C12_Malformed ==
    \/ call.prefix # <<"m", Slash>>
    \/ \E i \in 1..Len(call.segments) : ~C12_WellFormed(call.segments[i])

C12_Number(segment) == Magnitude(C12_Body(segment), [hi |-> 0, lo |-> 0])

C12_MalformedFails ==
    call.fn = "ParsePath" =>
        /\ C12_Malformed => result.err # ""
        /\ result.err = "" =>
            /\ Len(result.indices) = Len(call.segments)
            /\ Len(result.indices) > 0
            /\ \A i \in 1..Len(result.indices) :
                (C12_WellFormed(call.segments[i])
                    /\ C12_Number(call.segments[i]).hi = 0) =>
                    result.indices[i] =
                        Uint32(IF Contains(call.segments[i], Quote)
                               THEN 1 ELSE 0,
                               C12_Number(call.segments[i]).lo)

\* C17: ParsePath never returns an index that wraps around 32 bits: a
\* segment whose number is negative or at least 2^31 is rejected, so every
\* returned index is n for a non-hardened segment n and n + 2^31 for a
\* hardened segment n, with 0 <= n < 2^31.
C17_Number(segment) == Atoi(TrimRight(segment, Quote), 64)

C17_NoWrap ==
    (call.fn = "ParsePath" /\ result.err = "") =>
        \A i \in 1..Len(result.indices) :
            /\ ~C17_Number(call.segments[i]).neg
            /\ C17_Number(call.segments[i]).hi = 0
            /\ result.indices[i] =
                   Uint32(IF Contains(call.segments[i], Quote) THEN 1 ELSE 0,
                          C17_Number(call.segments[i]).lo)

\* C13: FundingKey is the public key of stage3, where stage1 = HKDF(secret,
\* no salt, "peer seed"), stage2 = HKDF(stage1, salt = the 33-byte compressed
\* peer key followed by the 8-byte little-endian channel number, "per-peer
\* seed") and stage3 = HKDF(stage2, no salt, "c-lightning"); the peer key and
\* the channel number enter through the salt of stage 2 only.
C13_Stage3 == result.pubKeyOf
C13_Stage2 == C13_Stage3.key
C13_Stage1 == C13_Stage2.key

\* The number a little-endian byte string stands for.
RECURSIVE C13_LittleEndianValue(_)
C13_LittleEndianValue(bytes) ==
    IF Len(bytes) = 0 THEN 0
    ELSE bytes[1] + 256 * C13_LittleEndianValue(Tail(bytes))

C13_FundingKeyChain ==
    call.fn = "FundingKey" =>
        /\ C13_Stage3.info = "c-lightning" /\ C13_Stage3.salt = <<>>
        /\ C13_Stage2.info = "per-peer seed"
        /\ Len(C13_Stage2.salt) = 33 + 8
        /\ C13_Stage2.salt[1] = (IF call.peerPubKey.odd THEN 3 ELSE 2)
        /\ \A j \in 2..32 : C13_Stage2.salt[j] = 0
        /\ C13_Stage2.salt[33] = call.peerPubKey.x
        /\ \A j \in 38..41 : C13_Stage2.salt[j] = 0
        /\ C13_LittleEndianValue(SubSeq(C13_Stage2.salt, 34, 37))
               = call.channelNum
        /\ C13_Stage1 = [kdf |-> "hkdf-sha256", key |-> call.hsmSecret,
                         salt |-> <<>>, info |-> "peer seed"]

C13_Witness ==
    /\ call.fn = "FundingKey"
    /\ call.channelNum = 65537
    /\ call.peerPubKey.odd
    /\ result.pubKeyOf.key.salt[34] = 1
    /\ result.pubKeyOf.key.salt[36] = 1

\* ================================================ claims on the assembly
\* C14: the shared signature-hash context is computed exactly once per
\* sweep, after every input and the single output were added and before the
\* first input is signed; between that computation and the last signature
\* nothing of the transaction changes but the witnesses.
C14_ContextOnce ==
    /\ sigHashCount <= 1
    /\ sigHashCount = 0 =>
        /\ sigHashes = Nil
        /\ signIdx = 0
        /\ \A i \in 1..Len(sweepTx.TxIn) : sweepTx.TxIn[i].Witness = Nil
    /\ sigHashCount = 1 =>
        LET utxos == AllUtxos(targets)
        IN  /\ Len(sweepTx.TxIn) = Len(utxos)
            /\ Len(sweepTx.TxOut) = 1
            /\ Len(sigHashes[1]) = Len(sweepTx.TxIn)
            /\ \A i \in 1..Len(sweepTx.TxIn) :
                /\ sigHashes[1][i] =
                       [op |-> utxos[i].OutPoint,
                        seq |-> sweepTx.TxIn[i].Sequence,
                        prev |-> {TxOutOf(utxos[i])}]
                /\ sweepTx.TxIn[i].PreviousOutPoint = sigHashes[1][i].op
                /\ sweepTx.TxIn[i].Witness # Nil =>
                       sweepTx.TxIn[i].Witness[7] = sigHashes
            /\ sigHashes[2] = sweepTx.TxOut
            /\ sigHashes[2][1].PkScript = sweepScript
            /\ sigHashes[2][1].Value = totalOutputValue
                    - TotalFee(feeRate, Weight(estimator))

\* C14's case: both inputs of a two-input sweep are signed over the one
\* context.
C14_Witness ==
    /\ pc = "done"
    /\ sigHashCount = 1
    /\ Len(sweepTx.TxIn) = 2
    /\ \A i \in 1..2 : sweepTx.TxIn[i].Witness[7] = sigHashes

\* The scanned indices whose key is the descriptor's key.
C15_Matches ==
    {i \in 0..(MaxKeyRangeScan - 1) :
        call.keyDesc.PubKey.path =
            <<Uint32(1, 1017), Uint32(1, 0),
              Uint32(1, call.keyDesc.Family), Uint32(0, 0), Uint32(0, i)>>}

C15_First == CHOOSE i \in C15_Matches : \A j \in C15_Matches : i <= j

\* C15: CheckDescriptor returns an error when the descriptor has no public
\* key; otherwise, absent derivation errors, it scans the indices
\* 0..MaxKeyRangeScan-1 of the descriptor's family in ascending order,
\* succeeds at the first index whose key equals the descriptor's key without
\* deriving later indices, and returns ErrCannotDerivePrivKey if and only if
\* no index of the range matches.
C15_ScanUntilMatch ==
    call.fn = "CheckDescriptor" =>
        /\ call.keyDesc.PubKey = NoPubKey =>
            /\ result.err = "no public key provided to check"
            /\ result.scanned = <<>>
        /\ \A k \in 1..Len(result.scanned) : result.scanned[k] = k - 1
        /\ (call.keyDesc.PubKey # NoPubKey
                /\ result.err \notin {"DeriveError", "PubKeyError"}) =>
            /\ (result.err = ErrCannotDerivePrivKey) <=> (C15_Matches = {})
            /\ C15_Matches = {} =>
                   Len(result.scanned) = MaxKeyRangeScan
            /\ C15_Matches # {} =>
                /\ result.err = ""
                /\ Len(result.scanned) = C15_First + 1

\* C15's case: the descriptor's key is found at index 2, after the keys of
\* the indices 0, 1 and 2 were derived and no later one.
C15_Witness ==
    /\ call.fn = "CheckDescriptor"
    /\ call.keyDesc.PubKey.path =
           Append(FamilyPath(call.keyDesc.Family), Uint32(0, 2))
    /\ result.err = ""
    /\ result.scanned = <<0, 1, 2>>

\* C16: while the sweep transaction is assembled every added input gets
\* exactly one non-nil signing descriptor and exactly one weight contribution
\* of its script family, so the descriptor list is as long as the input list
\* and descriptor i belongs to input i, for scan targets and for the targets
\* of the legacy matcher alike.
C16_DescPerInput ==
    LET n == Len(sweepTx.TxIn)
        owners == InputOwners(targets)
        utxos == AllUtxos(targets)
    IN  /\ Len(signDescs) = n
        /\ estimator.inputCount = n
        /\ estimator.inputSize = InputSize * n
        /\ n > 0 =>
            /\ estimator.inputWitnessSize = C2_SumWitness(SubSeq(owners, 1, n))
            /\ \A i \in 1..n :
                /\ signDescs[i] # NilSignDesc
                /\ signDescs[i].SignMethod # "nil"
                /\ signDescs[i].KeyDesc = owners[i].keyDesc
                /\ signDescs[i].SingleTweak = owners[i].tweak
                /\ signDescs[i].Output = TxOutOf(utxos[i])
                /\ signDescs[i].InputIndex = i - 1
                /\ sweepTx.TxIn[i].PreviousOutPoint = utxos[i].OutPoint
        /\ n = 0 => estimator.inputWitnessSize = 0

\* C16's case: the assembly has added the input of an anchor target of the
\* scan and the input of a target of the legacy matcher.
C16_Witness ==
    /\ pc = "build"
    /\ Len(targets) = 2
    /\ buildPos[1] > Len(targets)
    /\ targets[1].addr.type = "p2wsh"
    /\ targets[2].tweak # Nil
    /\ Len(signDescs) = 2
    /\ signDescs[2].SingleTweak = targets[2].tweak

\* C18: when the target of a matched legacy record is built, an outpoint
\* whose output index is not below the number of outputs of the transaction
\* the chain lookup returned gives an error return or a skipped record,
\* never an out-of-range access that crashes the operation.
C18_IndexInRange ==
    \A i \in 1..Len(txLookups) :
        (txLookups[i].answer.ok
            /\ txLookups[i].op.Index >= Len(txLookups[i].answer.Vout)) =>
                pc # "panic"

====
